---- MODULE Spec2Model ----
(***************************************************************************)
(* A model of pget (src/pget.py): one run of the script polls the          *)
(* configured feeds, downloads the recent items it has no ledger record    *)
(* for, records them in downloaded.ini, and cleans old and stalled files.  *)
(*                                                                         *)
(* Representation.                                                         *)
(*  - A string the code takes apart or extends is a sequence of pieces:    *)
(*    a file name is <<"a.mp3">>, fn + '.downloading' is                   *)
(*    <<"a.mp3", ".downloading">>, a url is the sequence of its            *)
(*    '/'-separated segments.  os.path.join(a, b) is the pair <<a, b>>.    *)
(*  - A pubDate text is the value parsedate gives for it: [ok |-> FALSE]   *)
(*    for a text parsedate answers None for, else the time.mktime of the  *)
(*    parsed tuple (local time zone UTC).                                  *)
(*  - Times are seconds; time.time() is the fixed instant Now.             *)
(*  - The network is an input: each urlopen draws its response from a      *)
(*    small set.                                                           *)
(***************************************************************************)
EXTENDS Integers, Sequences, FiniteSets, TLC

VARIABLES
    pc,          \* "idle" (no process), "run" (main script), "handlefeed",
                 \* "items" (inside handlefeed's loop), "crashed"
    todo,        \* the operations of __main__ still to execute, in order
    args,        \* App.args: clean, stall, rmolder
    downloaded,  \* App.downloaded: list of DownloadedFile
    dconfig,     \* App.dconfig: the sections of the in-memory ConfigParser
    disk,        \* the file downloaded.ini
    files,       \* the regular files under the download directories
    dirs,        \* the directories that exist
    cwd,         \* the working directory of the process
    feed,        \* the Feed of the section being handled
    newer,       \* the items handlefeed's loop has still to visit
    polled,      \* history: sections polled in this run, in order
    checked,     \* history: items of the current feed the loop has visited
    visited,     \* history: how many items handlefeed's loop visited in this
                 \* run, and the files whose download completed in this run
    orphans,     \* history: files renamed by a process that was killed
                 \* before it wrote the ledger
    runs,        \* number of processes started so far
    last,        \* history: what the most recent operation did
    eqa, eqb,    \* SpecEq: two DownloadedFile objects
    eql,         \* SpecEq: a list of DownloadedFile objects
    eqres        \* SpecEq: result of the comparison applied last

vars == <<pc, todo, args, downloaded, dconfig, disk, files, dirs, cwd, feed,
          newer, polled, checked, visited, orphans, runs, last, eqa, eqb, eql,
          eqres>>

progvars == <<pc, todo, args, downloaded, dconfig, disk, files, dirs, cwd,
              feed, newer, polled, checked, visited, orphans, runs, last>>

eqvars == <<eqa, eqb, eql, eqres>>

----------------------------------------------------------------------------
(* Bounds *)

NowDays == 100       \* time.time(), in days since the epoch
MaxItems == 2        \* items in one feed document
MaxRuns == 2         \* processes started in one behaviour
MaxBytes == 2        \* largest Content-Length and largest stream of a media response
MaxDelta == 1        \* largest timedelta of a record in SpecEq
MaxEqTime == 3       \* largest time of a record in SpecEq

(* Program constants *)

DEFAULTLISTDAYS == 30
CleanFirstDays == 7
OkCode == 200
DaySecs == 24 * 60 * 60
SentinelTime == 2 * 60 * 60

Now == NowDays * DaySecs

----------------------------------------------------------------------------
(* Small helpers *)

Range(s) == {s[i] : i \in 1..Len(s)}

Last(s) == s[Len(s)]

\* a list left in the order it has
Reverse_none(s) == s

Reverse(s) == [i \in 1..Len(s) |-> s[Len(s) + 1 - i]]

Abs(x) == IF x < 0 THEN -x ELSE x

Join(a, b) == <<a, b>>

Suffix == <<".downloading">>

EndsWith(name, suf) ==
    /\ Len(name) >= Len(suf)
    /\ SubSeq(name, Len(name) - Len(suf) + 1, Len(name)) = suf

----------------------------------------------------------------------------
(* The podcast configuration (podcasts.ini): one section per feed.  The    *)
(* second section lacks 'dir' and is not valid; the third keeps items for  *)
(* longer than DEFAULTLISTDAYS.                                            *)

DPath == <<"pget">>

Sections ==
    << [keys |-> {"title", "url", "dpath", "dir", "days"},
        dpath |-> DPath, dir |-> <<"show1">>, days |-> 7],
       [keys |-> {"title", "url", "dpath", "days"},
        dpath |-> DPath, dir |-> <<"none">>, days |-> 7],
       [keys |-> {"title", "url", "dpath", "dir", "days"},
        dpath |-> DPath, dir |-> <<"show2">>, days |-> 45] >>

NumSections == Len(Sections)

\* __main__: valid = 'title' in sec and 'url' in sec and 'dpath' in sec and 'dir' in sec
valid(sec) == {"title", "url", "dpath", "dir"} \subseteq sec.keys

\* dostallaction: ('dpath' in sec) and ('dir' in sec)
hasstallpath(sec) == {"dpath", "dir"} \subseteq sec.keys

FullDir(sec) == Join(sec.dpath, sec.dir)

----------------------------------------------------------------------------
(* Feed documents.  An <item> of the document has or lacks a               *)
(* media:content child, which has or lacks a url attribute, and has a      *)
(* pubDate that is absent, unparseable, or a date.                         *)

\* A '%' piece is a percent sign that is neither doubled nor followed by
\* '(': the percent-encoded name a%20b.mp3 is <<"a", "%", "20b.mp3">>.
PlainNames == {<<"a.mp3">>, <<"b.mp3">>}

PercentName == <<"a", "%", "20b.mp3">>

FileNames == PlainNames \cup {PercentName}

TRecent == Now - 1 * DaySecs     \* newer than every window
TOld == Now - 40 * DaySecs       \* inside the 45 day window only

UrlOf(fn) == << <<"http:">>, <<>>, <<"host">>, fn >>

NoneUrl == [isnone |-> TRUE, segs |-> <<>>]

StrUrl(segs) == [isnone |-> FALSE, segs |-> segs]

RawItem(media, fn, pub, t) == [media |-> media, fn |-> fn, pub |-> pub, t |-> t]

RawItems ==
    {RawItem("url", fn, "date", TRecent) : fn \in FileNames}
    \cup {RawItem("url", <<"a.mp3">>, "date", TOld),
          RawItem("url", <<"a.mp3">>, "bad", 0),
          RawItem("url", <<"a.mp3">>, "absent", 0),
          RawItem("nourl", <<"a.mp3">>, "date", TRecent),
          RawItem("none", <<"a.mp3">>, "date", TRecent)}

SeqsUpTo(S, n) == UNION {[1..k -> S] : k \in 0..n}

FeedDocs == SeqsUpTo(RawItems, MaxItems)

\* What urlopen(feed.url).read() gives: an exception, or a document
FeedResponses ==
    {[ok |-> FALSE, items |-> <<>>]} \cup {[ok |-> TRUE, items |-> d] : d \in FeedDocs}

----------------------------------------------------------------------------
(* Feed.parsexml *)

\* email.utils.parsedate of a pubDate text: None, or the parsed time
ParsedDate(ok, t) == [ok |-> ok, t |-> t]

\* lines 184-188: the text of pubDate, or the sentinel when the element is missing
pubdatetext(raw) ==
    CASE raw.pub = "absent" -> ParsedDate(TRUE, SentinelTime)
      [] raw.pub = "bad"    -> ParsedDate(FALSE, 0)
      [] OTHER              -> ParsedDate(TRUE, raw.t)

\* lines 197-203: an item is appended when it has a media:content element
hasmedia(raw) == raw.media # "none"

mediaurl(raw) == IF raw.media = "url" THEN StrUrl(UrlOf(raw.fn)) ELSE NoneUrl

FeedItem(pubdate, url) == [pubdate |-> pubdate, url |-> url]

RECURSIVE extractitems(_)
extractitems(raws) ==
    IF raws = <<>> THEN <<>>
    ELSE LET r == Head(raws)
             rest == extractitems(Tail(raws))
         IN IF hasmedia(r) THEN <<FeedItem(pubdatetext(r), mediaurl(r))>> \o rest
            ELSE rest

\* sorted(): stable, ascending by key
RECURSIVE insertsorted(_, _)
insertsorted(x, s) ==
    IF s = <<>> THEN <<x>>
    ELSE IF Last(s).pubdate.t <= x.pubdate.t THEN Append(s, x)
    ELSE Append(insertsorted(x, SubSeq(s, 1, Len(s) - 1)), Last(s))

RECURSIVE sortedbydate(_)
sortedbydate(s) ==
    IF s = <<>> THEN <<>>
    ELSE insertsorted(Last(s), sortedbydate(SubSeq(s, 1, Len(s) - 1)))

\* sorted() compares keys as soon as there are two; None does not compare
sortraises(items) == Len(items) >= 2 /\ \E i \in 1..Len(items) : ~items[i].pubdate.ok

\* parsexml: the items of the feed, or the TypeError of the sort
parsexml(raws) ==
    LET items == extractitems(raws)
    IN IF sortraises(items) THEN [exc |-> "TypeError", items |-> items]
       ELSE [exc |-> "none", items |-> Reverse(sortedbydate(items))]


\* pollxml: the exception of urlopen is caught; self.xml stays None
pollxml(resp) == [xml |-> resp.ok, exc |-> "none"]

\* Feed.poll
poll(resp) ==
    LET px == pollxml(resp)
    IN IF px.exc # "none" THEN [exc |-> px.exc, items |-> <<>>]
       ELSE IF px.xml THEN parsexml(resp.items)
       ELSE [exc |-> "none", items |-> <<>>]

\* Feed.getnewer
getnewerraises(items) == \E i \in 1..Len(items) : ~items[i].pubdate.ok

treshold(days) == Now - days * DaySecs

isnewer(f, days) == f.pubdate.t > treshold(days)

RECURSIVE getnewer(_, _)
getnewer(items, days) ==
    IF items = <<>> THEN <<>>
    ELSE IF isnewer(Head(items), days)
         THEN <<Head(items)>> \o getnewer(Tail(items), days)
         ELSE getnewer(Tail(items), days)

----------------------------------------------------------------------------
(* DownloadedFile *)

DownloadedFile(title, path, time) ==
    [title |-> title, path |-> path, time |-> time, timedelta |-> 0]

\* __eq__: the second assignment to ret replaces the first
Eq(self, other) ==
    LET ret1 == self.title = other.title /\ self.path = other.path
        ret2 == Abs(self.time - other.time) <= (self.timedelta + other.timedelta)
    IN ret2

isinlist(df, l) == \E i \in 1..Len(l) : Eq(df, l[i])

----------------------------------------------------------------------------
(* The ledger: downloaded.ini and the ConfigParser that holds it.  A       *)
(* section is named by the record's title and keeps path and time as       *)
(* strings.                                                                *)

\* str(x) as configparser stores a value, and float(s) reading it back
str(x) == [repr |-> x]

float(s) == s.repr

\* BasicInterpolation.before_set, run by self.dconfig[title] = {...}: a value
\* with a '%' left after removing every '%%' and '%(name)s' is rejected with
\* ValueError.  The value is the path; the configured directories hold no
\* '%', so the file name decides.
badinterpolation(path) == \E i \in 1..Len(path[2]) : path[2][i] = "%"

\* BasicInterpolation.before_get, run by self.dconfig[sec]['path']: a doubled
\* '%%' reads back as one '%'
unescape(name) == [i \in 1..Len(name) |-> IF name[i] = "%%" THEN "%" ELSE name[i]]

getpath(s) == <<s.repr[1], unescape(s.repr[2])>>

\* an option the section does not have
NoOption == [missing |-> TRUE]

\* the section the rejected assignment leaves behind: created, or emptied
\* when it existed, before the first value is checked
EmptySection(title) == [title |-> title, path |-> NoOption, time |-> NoOption]

\* 'time' in sec
hastime(sec) == sec.time # NoOption

Section(title, path, time) == [title |-> title, path |-> path, time |-> time]

\* addtodconfig: self.dconfig[dfile.title] = {'path': ..., 'time': ...}
\* replaces the options of an existing section, else adds a section at the end
\* and raises ValueError, leaving the section without options, when the path
\* is rejected by the interpolation check
addtodconfig(dc, dfile) ==
    LET bad == badinterpolation(dfile.path)
        sec == IF bad THEN EmptySection(dfile.title)
               ELSE Section(dfile.title, str(dfile.path), str(dfile.time))
    IN [exc |-> IF bad THEN "ValueError" ELSE "none",
        dconfig |-> IF \E i \in 1..Len(dc) : dc[i].title = dfile.title
                    THEN [i \in 1..Len(dc) |->
                            IF dc[i].title = dfile.title THEN sec ELSE dc[i]]
                    ELSE Append(dc, sec)]

\* with open(self.downfile, 'w') as f: self.dconfig.write(f)
writeledger(dc) == [exists |-> TRUE, secs |-> dc]

\* loadconfig, lines 288-299
loaddownloaded(dsk) ==
    IF dsk.exists
    THEN [i \in 1..Len(dsk.secs) |->
            DownloadedFile(dsk.secs[i].title, getpath(dsk.secs[i].path),
                           float(dsk.secs[i].time))]
    ELSE <<>>

loaddconfig(dsk) == IF dsk.exists THEN dsk.secs ELSE <<>>

loaddisk(dsk) == IF dsk.exists THEN dsk ELSE [exists |-> TRUE, secs |-> <<>>]

----------------------------------------------------------------------------
(* App.cleanolder *)

\* cleanolder without the early return
cleanolderskips_never(days) == FALSE

\* line 321: float(days) == 0.0 returns at once
cleanolderskips(days) == days = 0

\* line 323
cutoff(days) == Now - (24 * 60 * 60 * days)

\* line 329: (t - st) < 0
isolder(sec, st) == (float(sec.time) - st) < 0

RemoveAt(s, i) == SubSeq(s, 1, i - 1) \o SubSeq(s, i + 1, Len(s))

\* The loop iterates over self.dconfig while remove_section shrinks it: the
\* step of the iterator that follows the first removal raises RuntimeError
\* ("dictionary changed size during iteration"), also when the removed
\* section was the last one.  So the first section older than the cutoff is
\* removed and its file unlinked, nothing after it is visited, and line 336
\* is not reached.
cleanolder(days, dc, dsk, fs) ==
    IF cleanolderskips(days)
    THEN [exc |-> "none", dconfig |-> dc, disk |-> dsk, files |-> fs,
          wrote |-> 0, removed |-> 0]
    ELSE LET st == cutoff(days)
             old == {i \in 1..Len(dc) : hastime(dc[i]) /\ isolder(dc[i], st)}
         IN IF old = {}
            THEN [exc |-> "none", dconfig |-> dc, disk |-> dsk, files |-> fs,
                  wrote |-> 0, removed |-> 0]
            ELSE LET i == CHOOSE j \in old : \A k \in old : j <= k
                 IN [exc |-> "RuntimeError", dconfig |-> RemoveAt(dc, i),
                     disk |-> dsk, files |-> fs \ {getpath(dc[i].path)},
                     wrote |-> 0, removed |-> 1]

----------------------------------------------------------------------------
(* App.cleanstall *)

\* os.listdir(path) raises when the directory does not exist
cleanstall(path, fs, ds) ==
    IF path \notin ds
    THEN [exc |-> "FileNotFoundError", files |-> fs]
    ELSE [exc |-> "none",
          files |-> {f \in fs : ~(f[1] = path /\ EndsWith(f[2], Suffix))}]

----------------------------------------------------------------------------
(* FeedItem.download *)

Response(opened, code, haslength, length, total, ioerr) ==
    [opened |-> opened, code |-> code, haslength |-> haslength,
     length |-> length, total |-> total, ioerr |-> ioerr]

NoResponse == Response(FALSE, 0, FALSE, 0, 0, FALSE)

\* What urlopen(self.url) and the reads of the response give
DownloadResponses ==
    {Response(TRUE, OkCode, TRUE, l, n, FALSE) : l \in 1..MaxBytes, n \in 1..MaxBytes}
    \cup {NoResponse,                                   \* urlopen raises
          Response(TRUE, 206, TRUE, 1, 1, FALSE),       \* a status other than 200
          Response(TRUE, OkCode, FALSE, 0, 1, FALSE),   \* no Content-Length header
          Response(TRUE, OkCode, TRUE, 1, 1, TRUE)}     \* a read raises

getfilename(item) == Last(item.url.segs)

\* shoulddownload that does not look at the destination
shoulddownload_always(fname, path, fs) == TRUE

\* shoulddownload: not os.path.exists(os.path.join(path, fname))
shoulddownload(fname, path, fs) == Join(path, fname) \notin fs

\* the size test accepting a stream longer than Content-Length
sizematches_atleast(totalsize, length) == totalsize >= length

\* line 110: totalsize == length
sizematches(totalsize, length) == totalsize = length

\* download without the chdir back
restorecwd_stay(saved, current) == current

\* finally: os.chdir(cwd)
restorecwd(saved, current) == saved

\* finally: if resp is not None: resp.close()
closeresp(state) == IF state = "open" THEN "closed" ELSE state

Outcome(fs, wd, net, result, caught, respstate) ==
    [files |-> fs, cwd |-> wd, net |-> net, result |-> result, caught |-> caught,
     respstate |-> respstate]

download(item, path, resp, fs, wd) ==
    LET fn == getfilename(item)
        fname == Join(path, fn)
        tmpfname == Join(path, fn \o Suffix)
        opened == fs \cup {tmpfname}
    IN IF ~shoulddownload(fn, path, fs)
       THEN Outcome(fs, restorecwd(wd, wd), 0, "skipped", "none", closeresp("none"))
       ELSE IF ~resp.opened
       THEN Outcome(fs, restorecwd(wd, path), 1, "failed", "URLError",
                    closeresp("none"))
       ELSE IF resp.code # OkCode
       THEN Outcome(fs, restorecwd(wd, path), 1, "failed", "Exception",
                    closeresp("open"))
       ELSE IF ~resp.haslength
       THEN Outcome(fs, restorecwd(wd, path), 1, "failed", "TypeError",
                    closeresp("open"))
       ELSE IF resp.ioerr
       THEN Outcome(opened, restorecwd(wd, path), 1, "failed", "OSError",
                    closeresp("open"))
       ELSE IF sizematches(resp.total, resp.length)
       THEN Outcome((opened \ {tmpfname}) \cup {fname}, restorecwd(wd, path), 1,
                    "completed", "none", closeresp("open"))
       ELSE Outcome(opened, restorecwd(wd, path), 1, "mismatch", "none",
                    closeresp("open"))

----------------------------------------------------------------------------
(* __main__ *)

Args(clean, stall, given, days) ==
    [clean |-> clean, stall |-> stall, rmolder |-> [given |-> given, days |-> days]]

NoArgs == Args(FALSE, FALSE, FALSE, 0)

\* The command lines of a run: no flag, -s, -r 0, -r 7, -c, -c -r 0
ArgsSet ==
    {NoArgs, Args(FALSE, TRUE, FALSE, 0), Args(FALSE, FALSE, TRUE, 0),
     Args(FALSE, FALSE, TRUE, 7), Args(TRUE, FALSE, FALSE, 0),
     Args(TRUE, FALSE, TRUE, 0)}

Op(op, sec, days) == [op |-> op, sec |-> sec, days |-> days]

\* dostallaction: one step per section
stallops == [i \in 1..NumSections |-> Op("stall", i, 0)]

\* dormolderaction: one call of cleanolder(app.args.rmolder) per section
rmolderops(days) == [i \in 1..NumSections |-> Op("rmolder", i, days)]

\* lines 395-402: one step per section
sectionops == [i \in 1..NumSections |-> Op("section", i, 0)]

\* __main__ with the cleanups of a normal run placed before the feeds
mainops_cleanfirst(a) ==
    IF a.clean
    THEN stallops
         \o (IF ~a.rmolder.given THEN rmolderops(CleanFirstDays) ELSE <<>>)
         \o rmolderops(DEFAULTLISTDAYS)
    ELSE IF a.stall THEN stallops
    ELSE IF a.rmolder.given THEN rmolderops(a.rmolder.days)
    ELSE rmolderops(DEFAULTLISTDAYS) \o stallops \o sectionops

\* lines 383-406
mainops(a) ==
    IF a.clean
    THEN stallops
         \o (IF ~a.rmolder.given THEN rmolderops(CleanFirstDays) ELSE <<>>)
         \o rmolderops(DEFAULTLISTDAYS)
    ELSE IF a.stall THEN stallops
    ELSE IF a.rmolder.given THEN rmolderops(a.rmolder.days)
    ELSE sectionops \o rmolderops(DEFAULTLISTDAYS) \o stallops

NoFeed == [sec |-> 0, dpath |-> <<>>, ddir |-> <<>>, days |-> 0, items |-> <<>>]

NoDf == DownloadedFile(<<>>, Join(Join(<<>>, <<>>), <<>>), 0)

NoLast ==
    [op |-> "none", exc |-> "none", by |-> "none", sec |-> 0, days |-> 0, fetchok |-> TRUE,
     invoked |-> FALSE, existed |-> FALSE, result |-> "none", caught |-> "none",
     net |-> 0, wrote |-> 0, removed |-> 0, df |-> NoDf, resp |-> NoResponse,
     respstate |-> "none", doc |-> <<>>]

NoVisits == [count |-> 0, completed |-> {}]

Visit(v, path, result) ==
    [count |-> v.count + 1,
     completed |-> IF result = "completed" THEN v.completed \cup {path}
                   ELSE v.completed]

Home == <<"home">>

Init ==
    /\ pc = "idle"
    /\ todo = <<>>
    /\ args = NoArgs
    /\ downloaded = <<>>
    /\ dconfig = <<>>
    /\ disk = [exists |-> FALSE, secs |-> <<>>]
    /\ files = {}
    /\ dirs = {}
    /\ cwd = Home
    /\ feed = NoFeed
    /\ newer = <<>>
    /\ polled = <<>>
    /\ checked = <<>>
    /\ visited = NoVisits
    /\ orphans = {}
    /\ runs = 0
    /\ last = NoLast
    /\ eqa = NoDf
    /\ eqb = NoDf
    /\ eql = <<>>
    /\ eqres = "none"

\* A process starts: App(), parsecmd, loadconfig, and the mode is chosen
Start(a) ==
    /\ pc \in {"idle", "crashed"}
    /\ runs < MaxRuns
    /\ runs' = runs + 1
    /\ args' = a
    /\ downloaded' = loaddownloaded(disk)
    /\ dconfig' = loaddconfig(disk)
    /\ disk' = loaddisk(disk)
    /\ todo' = mainops(a)
    /\ pc' = "run"
    /\ feed' = NoFeed
    /\ newer' = <<>>
    /\ polled' = <<>>
    /\ checked' = <<>>
    /\ visited' = NoVisits
    /\ last' = [NoLast EXCEPT !.op = "start"]
    /\ UNCHANGED <<files, dirs, cwd, orphans>>
    /\ UNCHANGED eqvars

\* The script reaches its end and the process exits
Exit ==
    /\ pc = "run"
    /\ todo = <<>>
    /\ pc' = "idle"
    /\ args' = NoArgs
    /\ downloaded' = <<>>
    /\ dconfig' = <<>>
    /\ feed' = NoFeed
    /\ polled' = <<>>
    /\ checked' = <<>>
    /\ visited' = NoVisits
    /\ last' = [NoLast EXCEPT !.op = "exit"]
    /\ UNCHANGED <<todo, disk, files, dirs, cwd, newer, orphans, runs>>
    /\ UNCHANGED eqvars

\* lines 395-399 for a section that is not valid
SkipSection ==
    /\ pc = "run"
    /\ todo # <<>>
    /\ Head(todo).op = "section"
    /\ ~valid(Sections[Head(todo).sec])
    /\ todo' = Tail(todo)
    /\ last' = [NoLast EXCEPT !.op = "skipsection", !.sec = Head(todo).sec]
    /\ UNCHANGED <<pc, args, downloaded, dconfig, disk, files, dirs, cwd, feed,
                   newer, polled, checked, visited, orphans, runs>>
    /\ UNCHANGED eqvars

\* lines 400-401: feed = Feed(...); feed.poll()
Poll(resp) ==
    /\ pc = "run"
    /\ todo # <<>>
    /\ Head(todo).op = "section"
    /\ valid(Sections[Head(todo).sec])
    /\ LET i == Head(todo).sec
           sec == Sections[i]
           p == poll(resp)
       IN /\ todo' = Tail(todo)
          /\ polled' = Append(polled, i)
          /\ checked' = <<>>
          /\ feed' = [sec |-> i, dpath |-> sec.dpath, ddir |-> sec.dir,
                      days |-> sec.days, items |-> p.items]
          /\ pc' = IF p.exc = "none" THEN "handlefeed" ELSE "crashed"
          /\ last' = [NoLast EXCEPT !.op = "poll", !.sec = i, !.exc = p.exc,
                                    !.fetchok = resp.ok, !.net = 1,
                                    !.doc = resp.items]
    /\ UNCHANGED <<args, downloaded, dconfig, disk, files, dirs, cwd, newer,
                   visited, orphans, runs>>
    /\ UNCHANGED eqvars

\* handlefeed, lines 341-348: getnewer and the download directories
HandleFeed ==
    /\ pc = "handlefeed"
    /\ IF getnewerraises(feed.items)
       THEN /\ pc' = "crashed"
            /\ last' = [NoLast EXCEPT !.op = "handlefeed", !.sec = feed.sec,
                                      !.exc = "TypeError"]
            /\ UNCHANGED <<dirs, newer>>
       ELSE LET n == getnewer(feed.items, feed.days)
            IN /\ dirs' = dirs \cup {feed.dpath, Join(feed.dpath, feed.ddir)}
               /\ newer' = n
               /\ pc' = IF n = <<>> THEN "run" ELSE "items"
               /\ last' = [NoLast EXCEPT !.op = "handlefeed", !.sec = feed.sec]
    /\ UNCHANGED <<todo, args, downloaded, dconfig, disk, files, cwd, feed,
                   polled, checked, visited, orphans, runs>>
    /\ UNCHANGED eqvars

\* handlefeed, lines 349-364: one turn of the loop over the newer items
HandleItem(resp) ==
    /\ pc = "items"
    /\ LET f == Head(newer)
           fulldir == Join(feed.dpath, feed.ddir)
       IN IF f.url.isnone
          THEN \* getfilename: None has no split
               /\ pc' = "crashed"
               /\ last' = [NoLast EXCEPT !.op = "item", !.sec = feed.sec,
                                         !.exc = "AttributeError"]
               /\ visited' = Visit(visited, NoDf.path, "crash")
               /\ UNCHANGED <<downloaded, dconfig, disk, files, cwd, newer, checked>>
          ELSE LET title == getfilename(f)
                   fname == Join(fulldir, title)
                   t == f.pubdate.t
                   df == DownloadedFile(title, fname, t)
               IN /\ newer' = Tail(newer)
                  /\ checked' = Append(checked, f)
                  /\ IF ~isinlist(df, downloaded)
                     THEN LET d == download(f, fulldir, resp, files, cwd)
                              a == addtodconfig(dconfig, df)
                          IN /\ files' = d.files
                             /\ cwd' = d.cwd
                             /\ visited' = Visit(visited, fname, d.result)
                             /\ downloaded' = Append(downloaded, df)
                             /\ dconfig' = a.dconfig
                             /\ pc' = IF a.exc # "none" THEN "crashed"
                                      ELSE IF Tail(newer) = <<>> THEN "run"
                                      ELSE "items"
                             \* line 359 raises before the ledger is opened
                             /\ disk' = IF a.exc = "none"
                                        THEN writeledger(a.dconfig) ELSE disk
                             /\ last' = [NoLast EXCEPT
                                   !.op = "item", !.sec = feed.sec, !.df = df,
                                   !.exc = a.exc,
                                   !.by = IF a.exc = "none" THEN "none"
                                          ELSE "addtodconfig",
                                   !.invoked = TRUE,
                                   !.existed = fname \in files,
                                   !.result = d.result, !.caught = d.caught,
                                   !.net = d.net,
                                   !.wrote = IF a.exc = "none" THEN 1 ELSE 0,
                                   !.respstate = d.respstate,
                                   !.resp = IF d.net = 0 THEN NoResponse ELSE resp]
                     ELSE /\ last' = [NoLast EXCEPT !.op = "item",
                                         !.sec = feed.sec, !.df = df]
                          /\ visited' = Visit(visited, fname, "listed")
                          /\ pc' = IF Tail(newer) = <<>> THEN "run" ELSE "items"
                          /\ UNCHANGED <<downloaded, dconfig, disk, files, cwd>>
    /\ UNCHANGED <<todo, args, dirs, feed, polled, orphans, runs>>
    /\ UNCHANGED eqvars

\* The process is killed inside handlefeed's loop after download renamed the
\* temp file (line 111) and before the ledger is touched (lines 358-362)
KillAfterRename(resp) ==
    /\ pc = "items"
    /\ ~Head(newer).url.isnone
    /\ LET f == Head(newer)
           fulldir == Join(feed.dpath, feed.ddir)
           title == getfilename(f)
           fname == Join(fulldir, title)
           df == DownloadedFile(title, fname, f.pubdate.t)
           d == download(f, fulldir, resp, files, cwd)
       IN /\ ~isinlist(df, downloaded)
          /\ d.result = "completed"
          /\ files' = d.files
          /\ orphans' = orphans \cup {fname}
          /\ visited' = Visit(visited, fname, "killed")
          /\ pc' = "crashed"
          /\ last' = [NoLast EXCEPT !.op = "kill", !.sec = feed.sec, !.df = df,
                                    !.exc = "killed", !.invoked = TRUE,
                                    !.result = d.result, !.net = d.net,
                                    !.resp = resp]
    /\ UNCHANGED <<todo, args, downloaded, dconfig, disk, dirs, cwd, feed, newer,
                   polled, checked, runs>>
    /\ UNCHANGED eqvars

\* dormolderaction: one call app.cleanolder(app.args.rmolder)
CleanOlder ==
    /\ pc = "run"
    /\ todo # <<>>
    /\ Head(todo).op = "rmolder"
    /\ LET days == Head(todo).days
           c == cleanolder(days, dconfig, disk, files)
       IN /\ args' = [args EXCEPT !.rmolder = [given |-> TRUE, days |-> days]]
          /\ dconfig' = c.dconfig
          /\ disk' = c.disk
          /\ files' = c.files
          /\ pc' = IF c.exc = "none" THEN "run" ELSE "crashed"
          /\ last' = [NoLast EXCEPT !.op = "cleanolder", !.sec = Head(todo).sec,
                                    !.days = days, !.exc = c.exc,
                                    !.wrote = c.wrote, !.removed = c.removed]
    /\ todo' = Tail(todo)
    /\ UNCHANGED <<downloaded, dirs, cwd, feed, newer, polled, checked, visited,
                   orphans, runs>>
    /\ UNCHANGED eqvars

\* dostallaction: one turn of its loop over the sections
DoStall ==
    /\ pc = "run"
    /\ todo # <<>>
    /\ Head(todo).op = "stall"
    /\ LET i == Head(todo).sec
           sec == Sections[i]
       IN IF hasstallpath(sec)
          THEN LET c == cleanstall(FullDir(sec), files, dirs)
               IN /\ files' = c.files
                  /\ pc' = IF c.exc = "none" THEN "run" ELSE "crashed"
                  /\ last' = [NoLast EXCEPT !.op = "cleanstall", !.sec = i,
                                            !.exc = c.exc]
          ELSE /\ last' = [NoLast EXCEPT !.op = "skipstall", !.sec = i]
               /\ UNCHANGED <<files, pc>>
    /\ todo' = Tail(todo)
    /\ UNCHANGED <<args, downloaded, dconfig, disk, dirs, cwd, feed, newer,
                   polled, checked, visited, orphans, runs>>
    /\ UNCHANGED eqvars

Next ==
    \/ \E a \in ArgsSet : Start(a)
    \/ Exit
    \/ SkipSection
    \/ \E resp \in FeedResponses : Poll(resp)
    \/ HandleFeed
    \/ \E resp \in DownloadResponses : HandleItem(resp)
    \/ \E resp \in DownloadResponses : KillAfterRename(resp)
    \/ CleanOlder
    \/ DoStall

Spec == Init /\ [][Next]_vars

----------------------------------------------------------------------------
(* SpecEq: DownloadedFile.__eq__ and isinlist applied to arbitrary         *)
(* records, with tolerances the program itself never sets.                 *)

EqPaths ==
    {Join(FullDir(Sections[1]), <<"a.mp3">>), Join(FullDir(Sections[3]), <<"a.mp3">>)}

EqRecs ==
    [title : PlainNames, path : EqPaths, time : 0..MaxEqTime, timedelta : 0..MaxDelta]

EqResult(op, val) == [op |-> op, val |-> val]

EqInit ==
    /\ pc = "idle"
    /\ todo = <<>>
    /\ args = NoArgs
    /\ downloaded = <<>>
    /\ dconfig = <<>>
    /\ disk = [exists |-> FALSE, secs |-> <<>>]
    /\ files = {}
    /\ dirs = {}
    /\ cwd = Home
    /\ feed = NoFeed
    /\ newer = <<>>
    /\ polled = <<>>
    /\ checked = <<>>
    /\ visited = NoVisits
    /\ orphans = {}
    /\ runs = 0
    /\ last = NoLast
    /\ eqa \in EqRecs
    /\ eqb \in EqRecs
    /\ eql = <<>>
    /\ eqres = EqResult("none", FALSE)

\* eqa == eqb
ApplyEq ==
    /\ eqres' = EqResult("eq", Eq(eqa, eqb))
    /\ UNCHANGED <<eqa, eqb, eql>>
    /\ UNCHANGED progvars

\* a record is put in the list
AddToList(r) ==
    /\ eql = <<>>
    /\ eql' = Append(eql, r)
    /\ eqres' = EqResult("none", FALSE)
    /\ UNCHANGED <<eqa, eqb>>
    /\ UNCHANGED progvars

\* eqa.isinlist(eql)
ApplyIsInList ==
    /\ eqres' = EqResult("isinlist", isinlist(eqa, eql))
    /\ UNCHANGED <<eqa, eqb, eql>>
    /\ UNCHANGED progvars

EqNext ==
    \/ ApplyEq
    \/ \E r \in EqRecs : AddToList(r)
    \/ ApplyIsInList

SpecEq == EqInit /\ [][EqNext]_vars

----------------------------------------------------------------------------
(* Properties *)

LedgerRecord(sec) == [title |-> sec.title, path |-> getpath(sec.path), time |-> float(sec.time)]

CacheRecord(df) == [title |-> df.title, path |-> df.path, time |-> df.time]

TmpOf(path) == Join(path[1], path[2] \o Suffix)

\* C1: a record is added to App.downloaded and to the ledger file only when
\* the download of the item completed; after a download that failed, was
\* skipped or ended with a byte count other than Content-Length, the item has
\* no record in the collection and none in the ledger file.
C1_RecordOnlyOnSuccess ==
    (last.op = "item" /\ last.invoked /\ last.result # "completed") =>
        /\ \A i \in 1..Len(downloaded) :
              CacheRecord(downloaded[i]) # CacheRecord(last.df)
        /\ \A i \in 1..Len(disk.secs) :
              LedgerRecord(disk.secs[i]) # CacheRecord(last.df)

\* The equality the specification gives for two ledger records
SameRecord(a, b) ==
    /\ a.title = b.title
    /\ a.path = b.path
    /\ Abs(a.time - b.time) <= a.timedelta + b.timedelta

\* C2: a == b holds exactly when titles match, paths match and the times
\* differ by at most the sum of the two tolerances; isinlist answers True
\* exactly when the list holds a record equal in this sense.
C2_EqualityIsTitlePathTime ==
    /\ (eqres.op = "eq" => (eqres.val <=> SameRecord(eqa, eqb)))
    /\ (eqres.op = "isinlist" =>
           (eqres.val <=> \E i \in 1..Len(eql) : SameRecord(eqa, eql[i])))

\* C3: when the final file did not exist before download ran, it exists
\* afterwards only if the status was 200 and the bytes read equal
\* Content-Length; otherwise at most the '.downloading' file was added.
C3_FinalOnlyIfExact ==
    (last.op = "item" /\ last.invoked /\ ~last.existed) =>
        /\ (last.df.path \in files =>
               /\ last.resp.opened
               /\ last.resp.code = 200
               /\ last.resp.haslength
               /\ ~last.resp.ioerr
               /\ last.resp.total = last.resp.length)
        /\ (last.result # "completed" => last.df.path \notin files)

C3_Witness ==
    /\ last.op = "item" /\ last.invoked /\ ~last.existed
    /\ last.resp.opened /\ last.resp.code = 200 /\ last.resp.haslength
    /\ last.resp.total > last.resp.length
    /\ last.df.path \notin files
    /\ TmpOf(last.df.path) \in files

\* C4: when the file named by the last segment of the url already exists in
\* the destination, download makes no request, creates no '.downloading'
\* file, leaves the files and the working directory as they were, and the
\* outcome is Skipped.
C4_SkipExisting ==
    [][(last'.op = "item" /\ last'.invoked /\ last'.existed) =>
          /\ last'.net = 0
          /\ last'.result = "skipped"
          /\ files' = files
          /\ cwd' = cwd]_vars

C4_Witness ==
    /\ last.op = "item" /\ last.invoked /\ last.existed
    /\ last.result = "skipped"
    /\ last.df.path \in files
    /\ TmpOf(last.df.path) \notin files

\* C5: while a process runs, the records of App.downloaded are the records
\* of the ledger file, after loadconfig and after every ledger operation.
C5_CacheMatchesLedger ==
    pc \in {"run", "handlefeed", "items"} =>
        {CacheRecord(downloaded[i]) : i \in 1..Len(downloaded)}
            = {LedgerRecord(disk.secs[i]) : i \in 1..Len(disk.secs)}

ValidSections == SelectSeq([i \in 1..NumSections |-> i], LAMBDA i : valid(Sections[i]))

RECURSIVE pendingsections(_)
pendingsections(ops) ==
    IF ops = <<>> THEN <<>>
    ELSE IF Head(ops).op = "section" /\ valid(Sections[Head(ops).sec])
         THEN <<Head(ops).sec>> \o pendingsections(Tail(ops))
         ELSE pendingsections(Tail(ops))

\* C6: a feed whose fetch failed is handled as a feed without items, and a
\* download that failed leaves the process in handlefeed's loop or back in
\* the main script; while a process runs, the feeds polled so far followed by
\* the valid sections still to come are the valid sections in order, and the
\* items visited so far followed by those still to visit are the recent items
\* of the feed in order.
C6_FailureIsolation ==
    /\ (last.op = "poll" /\ ~last.fetchok) =>
           (pc = "handlefeed" /\ feed.items = <<>>)
    /\ (last.op = "item" /\ last.invoked /\ last.result \in {"failed", "mismatch"}) =>
           pc \in {"run", "items"}
    /\ pc \in {"run", "handlefeed", "items"} =>
           (polled \o pendingsections(todo)) \in {<<>>, ValidSections}
    /\ (pc = "items" \/ (pc = "run" /\ feed.sec # 0)) =>
           checked \o newer = getnewer(feed.items, feed.days)

\* C7: an item whose pubDate text does not parse never ends the process:
\* the TypeError of the date is not an uncaught error of poll or handlefeed.
C7_BadDateIsHandled ==
    ~(pc = "crashed" /\ last.op \in {"poll", "handlefeed"} /\ last.exc = "TypeError")

\* C8: a call cleanolder(days) with days > 0 returns normally; no record
\* older than the cutoff is left in the ledger and its file is gone; every
\* other record and its file are as before; the ledger file was written
\* once if a record was removed and not at all otherwise.
C8_CleanOlderPost ==
    [][(last'.op = "cleanolder" /\ last'.days > 0) =>
          LET st == cutoff(last'.days)
              old == {i \in 1..Len(dconfig) : isolder(dconfig[i], st)}
          IN /\ pc' # "crashed"
             /\ \A i \in old :
                   /\ dconfig[i] \notin Range(dconfig')
                   /\ dconfig[i] \notin Range(disk'.secs)
                   /\ getpath(dconfig[i].path) \notin files'
             /\ \A i \in (1..Len(dconfig)) \ old :
                   /\ dconfig[i] \in Range(dconfig')
                   /\ (getpath(dconfig[i].path) \in files'
                          <=> getpath(dconfig[i].path) \in files)
             /\ last'.wrote = (IF old = {} THEN 0 ELSE 1)]_vars

\* C9: cleanolder(0) removes no record, does not write the ledger file and
\* deletes no file, whatever the ages of the records.
C9_CleanOlderZeroIsNoop ==
    [][(last'.op = "cleanolder" /\ last'.days = 0) =>
          /\ dconfig' = dconfig
          /\ disk' = disk
          /\ files' = files
          /\ last'.wrote = 0
          /\ pc' = "run"]_vars

C9_Witness ==
    /\ last.op = "cleanolder" /\ last.days = 0
    /\ \E i \in 1..Len(dconfig) :
          /\ isolder(dconfig[i], cutoff(last.days))
          /\ getpath(dconfig[i].path) \in files

\* C10: for each recent item, download is invoked exactly when the ledger
\* holds no record with the item's file name and destination path.
C10_DedupByNameAndPath ==
    [][(last'.op = "item" /\ last'.exc = "none") =>
          (last'.invoked <=>
              ~\E i \in 1..Len(downloaded) :
                  /\ downloaded[i].title = last'.df.title
                  /\ downloaded[i].path = last'.df.path)]_vars

\* C11: every item of Feed.items has a media url: an item without a
\* media:content element, or whose element has no url attribute, is not in
\* the list.
C11_ItemsHaveUrl ==
    \A i \in 1..Len(feed.items) : ~feed.items[i].url.isnone

\* A run is a normal poll-and-download run when it polls sections
IsNormalRun == (polled \o pendingsections(todo)) # <<>>

SectionOpPending == \E i \in 1..Len(todo) : todo[i].op = "section"

RmolderOpPending == \E i \in 1..Len(todo) : todo[i].op = "rmolder"

\* C12 as stated: in a normal run neither age cleanup nor stall cleanup is
\* invoked.
C12_NoCleanupInNormalRun ==
    IsNormalRun => last.op \notin {"cleanolder", "cleanstall"}

\* The operations of ops that follow the one of section k
OpsAfter(ops, k) == SubSeq(ops, k + 1, Len(ops))

\* C12 amended: in a normal run no cleanup is invoked before every section
\* was processed.  Then cleanolder is called with DEFAULTLISTDAYS, one call
\* per configured section in order; a call that removes a record ends the
\* process, a call that removes none returns.  Stall cleanup follows the
\* last age cleanup, one turn per configured section in order.
C12_CleanupAfterFeeds ==
    (IsNormalRun /\ last.op \in {"cleanolder", "cleanstall", "skipstall"}) =>
        /\ ~SectionOpPending
        /\ polled = ValidSections
        /\ (last.op = "cleanolder" =>
               /\ last.days = DEFAULTLISTDAYS
               /\ todo = OpsAfter(rmolderops(DEFAULTLISTDAYS), last.sec) \o stallops
               /\ (pc = "crashed" <=> last.removed = 1)
               /\ (pc = "run" <=> last.removed = 0))
        /\ (last.op \in {"cleanstall", "skipstall"} =>
               todo = OpsAfter(stallops, last.sec))

\* a normal run that downloaded a file went through every age cleanup and
\* every stall cleanup
C12_Witness ==
    /\ IsNormalRun
    /\ visited.completed # {}
    /\ last.op = "cleanstall"
    /\ last.sec = NumSections
    /\ todo = <<>>
    /\ pc = "run"

\* The first process, started on an empty ledger and empty destination, has
\* processed every section; its loop visited one item, whose download
\* completed and which is newer than DEFAULTLISTDAYS
OneGoodItem ==
    /\ runs = 1
    /\ visited.count = 1
    /\ Cardinality(visited.completed) = 1
    /\ Len(downloaded) = 1
    /\ downloaded[1].time > cutoff(DEFAULTLISTDAYS)
    /\ polled = ValidSections
    /\ ~SectionOpPending

AfterFeeds ==
    \/ pc = "run"
    \/ pc = "crashed" /\ last.op \in {"cleanolder", "cleanstall"}

\* The process ended in handlefeed after the download of the item returned
RecordingCrashed == pc = "crashed" /\ last.op = "item" /\ last.by = "addtodconfig"

\* C13: a normal run from an empty ledger and destination whose feeds give
\* one recent item with a matching stream does not end in handlefeed and
\* goes through its cleanups with exactly one file, the item's file under
\* <dpath>/<dir>, no '.downloading' file, and exactly one ledger record,
\* which has that path.
C13_EndToEnd ==
    (OneGoodItem /\ (AfterFeeds \/ RecordingCrashed)) =>
        /\ pc = "run"
        /\ files = {downloaded[1].path}
        /\ files = visited.completed
        /\ downloaded[1].path[1] \in {FullDir(Sections[i]) : i \in 1..NumSections}
        /\ Len(disk.secs) = 1
        /\ getpath(disk.secs[1].path) = downloaded[1].path
        /\ disk.secs[1].title = downloaded[1].path[2]

\* C14 as stated: after parsexml the items are strictly descending by date.
C14_StrictlyDescending ==
    (last.op = "poll" /\ last.exc = "none") =>
        \A i \in 1..(Len(feed.items) - 1) :
            feed.items[i].pubdate.t > feed.items[i + 1].pubdate.t

MediaItems(doc) == {i \in 1..Len(doc) : doc[i].media # "none"}

\* C14 amended: after parsexml the items are descending by date, equal
\* dates allowed; there is one item per <item> with a media:content element,
\* and those without pubDate carry the sentinel date.
C14_Descending ==
    (last.op = "poll" /\ last.exc = "none" /\ last.fetchok) =>
        /\ \A i \in 1..(Len(feed.items) - 1) :
              feed.items[i].pubdate.t >= feed.items[i + 1].pubdate.t
        /\ Len(feed.items) = Cardinality(MediaItems(last.doc))
        /\ Cardinality({i \in 1..Len(feed.items) :
                           feed.items[i].pubdate = ParsedDate(TRUE, SentinelTime)})
             = Cardinality({i \in MediaItems(last.doc) : last.doc[i].pub = "absent"})

C14_Witness ==
    /\ last.op = "poll" /\ last.exc = "none"
    /\ Len(last.doc) = 2
    /\ last.doc[1].pub = "absent" /\ last.doc[1].media = "url"
    /\ last.doc[2].pub = "date" /\ last.doc[2].media = "url"
    /\ Len(feed.items) = 2
    /\ feed.items[1].pubdate.t = last.doc[2].t
    /\ feed.items[2].pubdate.t = SentinelTime

\* C15: download never lets an exception out and leaves the working
\* directory as it found it, whatever the outcome; a response that was
\* opened is closed.  An exception of the step is raised by what handlefeed
\* calls after download returned.
C15_DownloadContained ==
    [][(last'.op = "item" /\ last'.invoked) =>
          /\ cwd' = cwd
          /\ (last'.exc # "none" => last'.by = "addtodconfig")
          /\ (pc' = "crashed" => last'.by = "addtodconfig")
          /\ (last'.resp.opened => last'.respstate = "closed")
          /\ last'.respstate # "open"]_vars

C15_Witness ==
    /\ last.op = "item" /\ last.invoked
    /\ last.result = "failed"
    /\ last.caught = "OSError"
    /\ last.respstate = "closed"
    /\ cwd = Home
    /\ pc = "items"

\* C16: the mode decides the operations of the run: clean is stall cleanup,
\* then age cleanup with 7 days, then age cleanup with 30 days, whatever the
\* other flags; stall is stall cleanup only; rmolder is age cleanup with the
\* given days only.
C16_ModeDispatch ==
    last.op = "start" =>
        /\ (args.clean =>
               todo = stallops \o rmolderops(CleanFirstDays)
                               \o rmolderops(DEFAULTLISTDAYS))
        /\ ((~args.clean /\ args.stall) => todo = stallops)
        /\ ((~args.clean /\ ~args.stall /\ args.rmolder.given) =>
               todo = rmolderops(args.rmolder.days))

NoRecordFor(path, dsk) ==
    \A i \in 1..Len(dsk.secs) : getpath(dsk.secs[i].path) # path

\* C17: a file renamed by a process that was killed before writing the
\* ledger is skipped by every later run without a request and without being
\* rewritten, and the ledger goes on holding no record for it.
C17_OrphanStaysUnrecorded ==
    [][/\ (last'.op = "item" /\ last'.invoked /\ last'.df.path \in orphans
             /\ last'.df.path \in files) =>
              (last'.result = "skipped" /\ last'.net = 0 /\ files' = files)
       /\ \A p \in orphans :
              (p \in files /\ NoRecordFor(p, disk)) => NoRecordFor(p, disk')]_vars

\* C18: an age cleanup with N > 0 days removes no file and no record whose
\* download completed less than N days earlier; a file downloaded in this
\* run is still there, with its record, after an age cleanup of the same run.
C18_RetentionFromCompletion ==
    [][(last'.op = "cleanolder" /\ last'.days > 0) =>
          \A p \in visited.completed :
              /\ (p \in files => p \in files')
              /\ ((\E i \in 1..Len(dconfig) : getpath(dconfig[i].path) = p)
                     => (\E i \in 1..Len(dconfig') : getpath(dconfig'[i].path) = p))]_vars

====
